---- MODULE Spec2Model ----
(***************************************************************************)
(* A model of the crawl-and-analyze pipeline of Steam-Friends-OSINT:       *)
(*   steam_osint/scanner.py     scan_network (BFS crawl, resumable)        *)
(*   steam_osint/steam_api.py   RateLimiter, SteamAPI                      *)
(*   steam_osint/probable_friends.py   compute_probable_friends            *)
(*   vapora/enricher.py         _clean_edges, export_gephi                 *)
(*   start.py                   run_scan, resume_last                      *)
(***************************************************************************)
EXTENDS Integers, Sequences, FiniteSets, TLC

VARIABLES
    \* ---- the directory service (what SteamAPI answers), fixed per behaviour
    friendsOf,          \* get_friend_list: identity -> list of identities
    summaryOf,          \* get_player_summaries: identity -> visibility code, 0 = no summary
    bansOf,             \* get_player_bans: identity -> "none" (no record), "clean" or "vac"
    groupsOf,           \* get_user_groups: identity -> list of group ids
    downFriends,        \* the identities whose GetFriendList request fails
    downSummaries,      \* whether the GetPlayerSummaries request fails
    downBans,           \* whether the GetPlayerBans request fails
    \* ---- cfg values handed to scan_network
    skipPrivate, includeGroupLinks,
    depth, maxNodes,    \* arguments of the running (or last) call
    \* ---- the TraversalState dict (state / resume_state)
    nodes,              \* state["nodes"]: identity -> node record (aliased by the local `nodes`)
    order,              \* insertion order of the keys of state["nodes"]
    edges,              \* state["edges"] (aliased by the local `edges`)
    stVisited,          \* state["visited"], a list
    stQueue,            \* state["queue"], a list of (identity, depth)
    stDepth,            \* state["meta"]["depth"]
    \* ---- locals of scan_network
    visited, q, cur, pc,
    \* ---- history of the crawl
    pops,               \* (identity, depth) pairs popped by the running call
    enq,                \* (identity, depth) pairs appended to q by the running call
    hist,               \* bookkeeping about the calls made so far
    \* ---- RateLimiter and its clock
    rpm, rlCalls, now, rlNow, rlpc, recorded, rlDone,
    \* ---- export_gephi
    xNodes, xRaw, xEdges, xBet, xPct, xHub, xpc,
    \* ---- compute_probable_friends
    pWeights,           \* cfg["weights"], in halves: <<mutual, jaccard, groups>>
    pRows,              \* the rows written to probable_friends.csv
    ppc

cfgVars == <<friendsOf, summaryOf, bansOf, groupsOf, downFriends, downSummaries, downBans,
             skipPrivate, includeGroupLinks>>
crawlVars == <<cfgVars, depth, maxNodes, nodes, order, edges, stVisited, stQueue,
               stDepth, visited, q, cur, pc, pops, enq, hist>>
rlVars == <<rpm, rlCalls, now, rlNow, rlpc, recorded, rlDone>>
xVars == <<xNodes, xRaw, xEdges, xBet, xPct, xHub, xpc>>
pVars == <<pWeights, pRows, ppc>>
vars == <<crawlVars, rlVars, xVars, pVars>>

----------------------------------------------------------------------------
(* Bounds of the model *)
MaxResumes == 1         \* resume_last calls after the first scan

(* The universe of identities and groups *)
Seed == "S"
Ids == {"S", "A", "B"}
IdOrder == <<"S", "A", "B">>
Gids == {"g1", "g2"}
PublicCode == 3         \* communityvisibilitystate of a public profile

\* The depth and max_nodes arguments. With Cardinality(Ids) identities no
\* new identity is found beyond depth Cardinality(Ids) - 1 and no node map
\* holds more than Cardinality(Ids) entries: the largest depth here finds
\* every identity and the largest max_nodes here never stops the loop.
DepthArgs == 0..(Cardinality(Ids) - 1)
NodeCaps == 0..(Cardinality(Ids) + 1)

Max(a, b) == IF a >= b THEN a ELSE b
Range(s) == {s[i] : i \in DOMAIN s}

\* The identities of `set`, listed in the directory's order.
ListOf(set) == SelectSeq(IdOrder, LAMBDA x : x \in set)

\* list(visited): the order of the list is never read back (only set(...) is
\* applied to it), so the list is written in the directory's order.
ToList(set) == ListOf(set)
ToSetNone(list) == {}
ToSet(list) == Range(list)

RECURSIVE Flatten(_)
Flatten(ss) == IF ss = <<>> THEN <<>> ELSE Head(ss) \o Flatten(Tail(ss))

\* Friend lists: every set of identities, listed without duplicates in the
\* directory's order; an identity may list itself.
FriendLists == {ListOf(s) : s \in SUBSET Ids}
FriendOracles == [Ids -> FriendLists]

NoNodes == [i \in {} |-> 0]

\* nodes[sid] = {"steamid": sid} (scanner.py:49): no other key is set yet.
\* `fetched`, `enriched` and `hasGroups` say whether the keys "friends",
\* "is_public" (with "personaname", "bans") and "groups" are present.
NewNode == [fetched |-> FALSE, friends |-> <<>>, enriched |-> FALSE,
            personaname |-> FALSE, is_public |-> FALSE, vac |-> FALSE,
            hasGroups |-> FALSE, groups |-> <<>>]

Keys(nn) == DOMAIN nn

FriendEdge(sid, f) == [a |-> sid, b |-> f, type |-> "friend"]
GroupEdge(x, y) == [a |-> x, b |-> y, type |-> "group"]

----------------------------------------------------------------------------
(* SteamAPI, steam_api.py *)

\* _get, lines 34-44: None when the request raises or the status is not
\* 200, else the decoded body.
Get(down, payload) ==
    IF down THEN [ok |-> FALSE, body |-> <<>>] ELSE [ok |-> TRUE, body |-> payload]

\* get_friend_list, lines 69-76: [] when there is no data
GetFriendListDespiteFailure(sid) == friendsOf[sid]
GetFriendList(sid) ==
    LET data == Get(sid \in downFriends, friendsOf[sid])
    IN IF ~data.ok THEN <<>> ELSE data.body

\* get_player_summaries, lines 78-92, read as summaries.get(sid, {}) and
\* its communityvisibilitystate: 0 when the identity has no entry. The
\* crawls here hold fewer than 100 nodes, so one request serves them all.
SummaryFor(sid) ==
    LET data == Get(downSummaries, summaryOf[sid])
    IN IF ~data.ok THEN 0 ELSE data.body

\* get_player_bans, lines 94-108, read as bans.get(sid, {})
BansFor(sid) ==
    LET data == Get(downBans, bansOf[sid])
    IN IF ~data.ok THEN "none" ELSE data.body

----------------------------------------------------------------------------
(* scan_network, scanner.py *)

\* len(nodes) < max_nodes: the loop test (line 41); its negation is the
\* break after a fetch (line 66).
HasBudgetOff(n, mx) == n <= mx
HasBudgetAlways(n, mx) == TRUE
HasBudget(n, mx) == n < mx

\* if not q: q.append((seed_steamid, 0))   (lines 34-37)
LoadQueueDropped(list) == <<<<Seed, 0>>>>
LoadQueue(list) == IF list = <<>> THEN <<<<Seed, 0>>>> ELSE list

\* q.popleft()   (line 42)
PopRight(qq) == [head |-> qq[Len(qq)], rest |-> SubSeq(qq, 1, Len(qq) - 1)]
PopLeft(qq) == [head |-> Head(qq), rest |-> Tail(qq)]

\* lines 56-59: the friends not yet visited, at depth d+1, when d < depth
EnqueueOneDeeper(qq, friends, d, dep, vis) ==
    IF d <= dep
    THEN LET new == SelectSeq(friends, LAMBDA f : f \notin vis)
         IN qq \o [i \in 1..Len(new) |-> <<new[i], d + 1>>]
    ELSE qq

Enqueue(qq, friends, d, dep, vis) ==
    IF d < dep
    THEN LET new == SelectSeq(friends, LAMBDA f : f \notin vis)
         IN qq \o [i \in 1..Len(new) |-> <<new[i], d + 1>>]
    ELSE qq

Appended(friends, d, dep, vis) == Enqueue(<<>>, friends, d, dep, vis)

\* lines 62-63
FriendEdges(sid, friends) == [i \in 1..Len(friends) |-> FriendEdge(sid, friends[i])]

\* What the model remembers of the calls: how many were made, the size of
\* the node map when the running call began, whether the first call left
\* work in the queue, whether every call had the depth of the first, the
\* keys of the node map when the BFS loop ended, whether it ended on an
\* empty queue, whether a checkpoint that lacked a field was resumed, how
\* many friend lists of each identity have been fetched, the length of the
\* edge list when the running call began, and the identities whose group
\* memberships the running call has fetched.
NoHist == [calls |-> 0, startCount |-> 0, firstEarly |-> FALSE, sameDepth |-> TRUE,
           loopEnded |-> FALSE, loopKeys |-> {}, emptyExit |-> FALSE,
           damaged |-> FALSE, fetches |-> [i \in Ids |-> 0],
           startEdges |-> 0, groupFetched |-> {}]

\* lines 22-37, resume_state = None
StartFresh ==
    /\ pc = "init"
    /\ \E dp \in DepthArgs, mx \in NodeCaps :
          /\ depth' = dp
          /\ maxNodes' = mx
          /\ stDepth' = dp
    /\ nodes' = NoNodes
    /\ order' = <<>>
    /\ edges' = <<>>
    /\ stVisited' = <<>>
    /\ stQueue' = <<>>
    /\ visited' = {}
    /\ q' = LoadQueue(<<>>)
    /\ cur' = <<>>
    /\ pops' = <<>>
    /\ enq' = LoadQueue(<<>>)
    /\ hist' = [NoHist EXCEPT !.calls = 1]
    /\ pc' = "loop"
    /\ UNCHANGED <<cfgVars, rlVars, xVars, pVars>>

\* lines 22-37 with the state of the last run (start.py:287-299): the dict
\* is truthy (it has keys), its nodes and edges are used in place; depth
\* and max_nodes are those of the cfg of the day.
Resume ==
    /\ pc = "done"
    /\ hist.calls <= MaxResumes
    /\ \E dp \in DepthArgs, mx \in NodeCaps :
          /\ depth' = dp
          /\ maxNodes' = mx
          /\ hist' = [hist EXCEPT !.calls = @ + 1,
                                  !.startCount = Cardinality(Keys(nodes)),
                                  !.startEdges = Len(edges),
                                  !.sameDepth = @ /\ dp = depth]
    /\ visited' = ToSet(stVisited)
    /\ q' = LoadQueue(stQueue)
    /\ cur' = <<>>
    /\ pops' = <<>>
    /\ enq' = LoadQueue(stQueue)
    /\ pc' = "loop"
    /\ UNCHANGED <<cfgVars, rlVars, xVars, pVars,
                   nodes, order, edges, stVisited, stQueue, stDepth>>

\* lines 41-49: the loop test, the pop, the visited test, visited.add and
\* the node entry; the fetch of line 52 is then outstanding.
Pop ==
    /\ pc = "loop"
    /\ q # <<>>
    /\ HasBudget(Cardinality(Keys(nodes)), maxNodes)
    /\ LET p == PopLeft(q)
           sid == p.head[1]
       IN /\ q' = p.rest
          /\ pops' = Append(pops, p.head)
          /\ IF sid \in visited
             THEN /\ UNCHANGED <<visited, nodes, order, cur>>
                  /\ pc' = "loop"
             ELSE /\ visited' = visited \cup {sid}
                  /\ IF sid \in Keys(nodes)
                     THEN UNCHANGED <<nodes, order>>
                     ELSE /\ nodes' = [k \in Keys(nodes) \cup {sid} |->
                                          IF k = sid THEN NewNode ELSE nodes[k]]
                          /\ order' = Append(order, sid)
                  /\ cur' = p.head
                  /\ pc' = "fetch"
    /\ UNCHANGED <<cfgVars, rlVars, xVars, pVars,
                   depth, maxNodes, edges, stVisited, stQueue, stDepth, enq, hist>>

\* lines 52-67: the friend list arrives; record it, enqueue the next layer,
\* add the friend edges, break when the budget is used up.
FetchReturn ==
    /\ pc = "fetch"
    /\ LET sid == cur[1]
           d == cur[2]
           friends == GetFriendList(sid)
       IN /\ nodes' = [nodes EXCEPT ![sid].fetched = TRUE, ![sid].friends = friends]
          /\ q' = Enqueue(q, friends, d, depth, visited)
          /\ enq' = enq \o Appended(friends, d, depth, visited)
          /\ edges' = edges \o FriendEdges(sid, friends)
          /\ IF HasBudget(Cardinality(Keys(nodes)), maxNodes)
             THEN /\ pc' = "loop"
                  /\ hist' = [hist EXCEPT !.fetches[sid] = @ + 1]
             ELSE /\ pc' = "enrich"
                  /\ hist' = [hist EXCEPT !.fetches[sid] = @ + 1,
                                          !.loopEnded = TRUE,
                                          !.loopKeys = Keys(nodes),
                                          !.emptyExit = (q' = <<>>),
                                          !.firstEarly = IF hist.calls = 1
                                                         THEN q' # <<>> ELSE @]
    /\ cur' = <<>>
    /\ UNCHANGED <<cfgVars, rlVars, xVars, pVars,
                   depth, maxNodes, order, stVisited, stQueue, stDepth, visited, pops>>

\* KeyboardInterrupt while get_friend_list(sid) waits in RateLimiter.wait
\* or in session.get (steam_api.py:35-39): the exception leaves
\* scan_network at line 52 and is caught in start.py; lines 53-113 do not
\* run, the state dict stays as it is.
Interrupt ==
    /\ pc = "fetch"
    /\ pc' = "interrupted"
    /\ UNCHANGED <<cfgVars, rlVars, xVars, pVars,
                   depth, maxNodes, nodes, order, edges, stVisited, stQueue, stDepth,
                   visited, q, cur, pops, enq, hist>>

\* line 41 false: the loop ends
LoopExit ==
    /\ pc = "loop"
    /\ ~(q # <<>> /\ HasBudget(Cardinality(Keys(nodes)), maxNodes))
    /\ pc' = "enrich"
    /\ hist' = [hist EXCEPT !.loopEnded = TRUE,
                            !.loopKeys = Keys(nodes),
                            !.emptyExit = (q = <<>>),
                            !.firstEarly = IF hist.calls = 1 THEN q # <<>> ELSE @]
    /\ UNCHANGED <<cfgVars, rlVars, xVars, pVars,
                   depth, maxNodes, nodes, order, edges, stVisited, stQueue, stDepth,
                   visited, q, cur, pops, enq>>

\* lines 71-88: summaries and bans for every key of the node map
Enriched(n, sid) ==
    [n EXCEPT !.enriched = TRUE,
              !.personaname = (SummaryFor(sid) # 0),
              !.is_public = (SummaryFor(sid) = PublicCode),
              !.vac = (BansFor(sid) = "vac")]

Enrich ==
    /\ pc = "enrich"
    /\ nodes' = [k \in Keys(nodes) |-> Enriched(nodes[k], k)]
    /\ pc' = IF includeGroupLinks THEN "groups" ELSE "return"
    /\ UNCHANGED <<cfgVars, rlVars, xVars, pVars,
                   depth, maxNodes, order, edges, stVisited, stQueue, stDepth,
                   visited, q, cur, pops, enq, hist>>

\* line 94: skip_private and not nodes[sid].get("is_public", False)
SkippedNever(nn, sid) == FALSE
Skipped(nn, sid) == skipPrivate /\ ~nn[sid].is_public

EmptyGmap == [keys |-> <<>>, members |-> [g \in Gids |-> <<>>]]

\* lines 98-99: for gid in groups: gmap.setdefault(gid, []).append(sid)
RECURSIVE AddGroups(_, _, _)
AddGroups(gm, sid, groups) ==
    IF groups = <<>> THEN gm
    ELSE LET g == Head(groups)
         IN AddGroups([keys |-> IF g \in Range(gm.keys) THEN gm.keys
                                ELSE Append(gm.keys, g),
                       members |-> [gm.members EXCEPT ![g] = Append(@, sid)]],
                      sid, Tail(groups))

\* lines 92-99: the reverse index group -> member list, over all_ids
RECURSIVE BuildGmap(_, _, _)
BuildGmap(ids, nn, gm) ==
    IF ids = <<>> THEN gm
    ELSE IF Skipped(nn, Head(ids)) THEN BuildGmap(Tail(ids), nn, gm)
    ELSE BuildGmap(Tail(ids), nn, AddGroups(gm, Head(ids), groupsOf[Head(ids)]))

\* line 96: the identities get_user_groups is called for
GroupFetches(ids, nn) == {sid \in Range(ids) : ~Skipped(nn, sid)}

\* line 97: nodes[sid]["groups"] = groups, for the nodes not skipped
WithGroups(nn) ==
    [k \in Keys(nn) |-> IF Skipped(nn, k) THEN nn[k]
                        ELSE [nn[k] EXCEPT !.hasGroups = TRUE, !.groups = groupsOf[k]]]

Perms(S) == {s \in [1..Cardinality(S) -> S] : Range(s) = S}

\* lines 105-107: one edge for every i < j of mems
PairEdges(mems) ==
    Flatten([i \in 1..Len(mems) |->
                [k \in 1..(Len(mems) - i) |-> GroupEdge(mems[i], mems[i + k])]])

\* lines 101-107 for one group: nothing when len(members) < 2, else the
\* pairs of mems = list(set(members)), whose order `mems` the set decides.
EdgesOfGroup(members, mems) == IF Len(members) < 2 THEN <<>> ELSE PairEdges(mems)

\* lines 101-107 over the groups `keys` of gmap, in the order of the dict:
\* the edge lists that can be appended, one for every choice of the order
\* of list(set(members)) of each group.
RECURSIVE GroupEdgeLists(_, _)
GroupEdgeLists(keys, members) ==
    IF keys = <<>> THEN {<<>>}
    ELSE {EdgesOfGroup(members[Head(keys)], mems) \o rest :
             mems \in Perms(Range(members[Head(keys)])),
             rest \in GroupEdgeLists(Tail(keys), members)}

\* lines 90-107
GroupLinks ==
    /\ pc = "groups"
    /\ \E ge \in GroupEdgeLists(BuildGmap(order, nodes, EmptyGmap).keys,
                                 BuildGmap(order, nodes, EmptyGmap).members) :
          edges' = edges \o ge
    /\ nodes' = WithGroups(nodes)
    /\ hist' = [hist EXCEPT !.groupFetched = GroupFetches(order, nodes)]
    /\ pc' = "return"
    /\ UNCHANGED <<cfgVars, rlVars, xVars, pVars,
                   depth, maxNodes, order, stVisited, stQueue, stDepth,
                   visited, q, cur, pops, enq>>

\* line 112: state["queue"] = list(q)
StoreQueueNone(qq) == <<>>
StoreQueue(qq) == qq

\* lines 109-113; the locals and the max_nodes argument end with the call.
Return ==
    /\ pc = "return"
    /\ stVisited' = ToList(visited)
    /\ stQueue' = StoreQueue(q)
    /\ pc' = "done"
    /\ maxNodes' = 0
    /\ visited' = {}
    /\ q' = <<>>
    /\ pops' = <<>>
    /\ enq' = <<>>
    /\ hist' = [hist EXCEPT !.startCount = 0, !.loopEnded = FALSE,
                            !.loopKeys = {}, !.emptyExit = FALSE,
                            !.startEdges = 0, !.groupFetched = {}]
    /\ UNCHANGED <<cfgVars, rlVars, xVars, pVars,
                   depth, nodes, order, edges, stDepth, cur>>

----------------------------------------------------------------------------
(* Specification of the crawl: one scan, then resumes of its checkpoint *)

AllPublic == [i \in Ids |-> PublicCode]
NoBans == [i \in Ids |-> "clean"]
NoGroups == [i \in Ids |-> <<>>]
SomeGroups == [i \in Ids |-> IF i = "B" THEN <<>> ELSE <<"g1">>]

RLOff ==
    /\ rpm = 1 /\ rlCalls = <<>> /\ now = 0 /\ rlNow = 0
    /\ rlpc = "off" /\ recorded = <<>> /\ rlDone = 0

XOff ==
    /\ xNodes = {} /\ xRaw = <<>> /\ xEdges = <<>> /\ xBet = NoNodes
    /\ xPct = 0 /\ xHub = {} /\ xpc = "off"

POff ==
    /\ pWeights = <<>> /\ pRows = <<>> /\ ppc = "off"

NoneDown ==
    /\ downFriends = {} /\ downSummaries = FALSE /\ downBans = FALSE

CrawlIdle ==
    /\ depth = 0 /\ maxNodes = 0
    /\ nodes = NoNodes /\ order = <<>> /\ edges = <<>>
    /\ stVisited = <<>> /\ stQueue = <<>> /\ stDepth = 0
    /\ visited = {} /\ q = <<>> /\ cur = <<>> /\ pops = <<>> /\ enq = <<>>
    /\ hist = NoHist

Init ==
    /\ friendsOf \in FriendOracles
    /\ summaryOf = AllPublic
    /\ bansOf = NoBans
    /\ \/ includeGroupLinks = FALSE /\ groupsOf = NoGroups
       \/ includeGroupLinks = TRUE /\ groupsOf = SomeGroups
    /\ NoneDown
    /\ skipPrivate = FALSE
    /\ CrawlIdle
    /\ pc = "init"
    /\ RLOff
    /\ XOff
    /\ POff

Next ==
    \/ StartFresh
    \/ Resume
    \/ Pop
    \/ FetchReturn
    \/ Interrupt
    \/ LoopExit
    \/ Enrich
    \/ GroupLinks
    \/ Return

Spec == Init /\ [][Next]_vars

\* One fresh crawl.
NextFresh ==
    \/ StartFresh
    \/ Pop
    \/ FetchReturn
    \/ LoopExit
    \/ Enrich
    \/ GroupLinks
    \/ Return

----------------------------------------------------------------------------
(* The crawl run to completion in one call: the loop of lines 41-67 from a *)
(* fresh state with a max_nodes that never binds.                          *)

RECURSIVE RefBfsOf(_, _, _, _, _, _)
RefBfsOf(fo, qq, vis, ee, pp, dep) ==
    IF qq = <<>> THEN [visited |-> vis, edges |-> ee, pops |-> pp]
    ELSE LET p == PopLeft(qq)
             sid == p.head[1]
             d == p.head[2]
         IN IF sid \in vis
            THEN RefBfsOf(fo, p.rest, vis, ee, Append(pp, p.head), dep)
            ELSE RefBfsOf(fo, Enqueue(p.rest, fo[sid], d, dep, vis \cup {sid}),
                          vis \cup {sid},
                          ee \o FriendEdges(sid, fo[sid]),
                          Append(pp, p.head), dep)

RefBfs(qq, vis, ee, pp, dep) == RefBfsOf(friendsOf, qq, vis, ee, pp, dep)

OnePass == RefBfs(LoadQueue(<<>>), {}, <<>>, <<>>, depth)

\* An edge as an unordered pair plus kind.
EdgeKey(e) == <<{e.a, e.b}, e.type>>
EdgeSet(ee) == {EdgeKey(ee[i]) : i \in DOMAIN ee}

\* The group edges of a node set: the pairs of distinct nodes, not skipped,
\* that share a group.
Eligible(sid) == ~(skipPrivate /\ summaryOf[sid] # PublicCode)
GroupKeysOf(set) ==
    IF ~includeGroupLinks THEN {}
    ELSE {<<{x, y}, "group">> : <<x, y>> \in
            {pr \in set \X set :
                /\ pr[1] # pr[2]
                /\ Eligible(pr[1]) /\ Eligible(pr[2])
                /\ Range(groupsOf[pr[1]]) \cap Range(groupsOf[pr[2]]) # {}}}

Running == pc \in {"loop", "fetch", "enrich", "groups", "return"}

----------------------------------------------------------------------------
(* Claims about the crawl, checked under Spec *)

\* C1 (as stated): when scan_network returns, the node map has at most
\* max_nodes entries, for fresh and for resumed crawls alike.
C1_NodeMapWithinMaxNodes ==
    pc = "return" => Cardinality(Keys(nodes)) <= maxNodes

\* C1 (amended): while scan_network runs and when it returns, the node map
\* has at most max(max_nodes, n0) entries, n0 being the number of entries it
\* had when the call began (0 for a fresh crawl); and the enrichment and
\* group-link phases leave the key set as the BFS loop left it.
C1_NodeMapWithinMaxOfCapAndStart ==
    Running =>
        /\ Cardinality(Keys(nodes)) <= Max(maxNodes, hist.startCount)
        /\ hist.loopEnded => Keys(nodes) = hist.loopKeys

\* A resumed crawl with a larger max_nodes than its checkpoint's node count
\* has filled its budget and gone through the group-link phase.
C1_Witness ==
    /\ pc = "return"
    /\ hist.calls = 2
    /\ includeGroupLinks
    /\ 0 < hist.startCount /\ hist.startCount < maxNodes
    /\ Cardinality(Keys(nodes)) = maxNodes

\* C2: a crawl stopped early and then resumed until its queue is empty ends
\* with the node identities and the edges (as unordered pair plus kind) of
\* the crawl done in one pass.
C2_ResumeIdempotent ==
    (pc = "return" /\ hist.calls >= 2 /\ hist.sameDepth /\ hist.emptyExit) =>
        /\ Keys(nodes) = OnePass.visited
        /\ EdgeSet(edges) = EdgeSet(OnePass.edges) \cup GroupKeysOf(OnePass.visited)

\* The first call stopped with work left in the queue, the resumed call
\* added nodes and emptied the queue.
C2_Witness ==
    /\ pc = "return"
    /\ hist.calls = 2
    /\ hist.firstEarly
    /\ hist.sameDepth
    /\ hist.emptyExit
    /\ Cardinality(Keys(nodes)) > hist.startCount
    /\ includeGroupLinks

\* C3: in a fresh crawl the popped (identity, depth) pairs are those
\* appended to the queue, in the order they were appended (FIFO), their
\* depths never decrease, and the sequence is the prefix of one sequence
\* fixed by the friend-list oracle and the depth argument alone.
C3_BfsOrder ==
    (Running /\ hist.calls = 1) =>
        /\ enq = pops \o q
        /\ \A i \in 1..(Len(pops) - 1) : pops[i][2] <= pops[i + 1][2]
        /\ Len(pops) <= Len(OnePass.pops)
        /\ pops = SubSeq(OnePass.pops, 1, Len(pops))

\* A fresh crawl that popped depths 0, 1 and 2 and skipped a stale entry.
C3_Witness ==
    /\ pc = "return"
    /\ hist.calls = 1
    /\ Len(pops) > Cardinality(visited)
    /\ pops[Len(pops)][2] = 2
    /\ Cardinality(visited) = 3

\* C6: an identity is in the visited set only if its friend list has been
\* fetched.
C6_VisitedOnlyAfterFetch ==
    \A sid \in visited \cup ToSet(stVisited) :
        sid \in Keys(nodes) /\ nodes[sid].fetched

\* C7: the work queue (the running one and the one stored in the state)
\* holds no identity that is in the visited set.
C7_QueueDisjointFromVisited ==
    /\ \A i \in DOMAIN q : q[i][1] \notin visited
    /\ \A i \in DOMAIN stQueue : stQueue[i][1] \notin ToSet(stVisited)

\* C9: no edge of the state's edge list joins an identity to itself.
C9_NoSelfLoops ==
    \A i \in DOMAIN edges : edges[i].a # edges[i].b

\* C16: an identity that enters the node map was popped at a depth of at
\* most the depth argument of the running call, fresh or resumed, and the
\* entries the call appends to the queue have at most that depth.
C16_DepthWithinMaxDepth ==
    /\ pc = "fetch" => cur[2] <= depth
    /\ Running =>
          \A i \in DOMAIN enq :
              i > Len(LoadQueue(stQueue)) => enq[i][2] <= depth

\* C17 (as stated): the queue of the returned state is empty if the BFS
\* loop ended with fewer than max_nodes nodes, and is not empty if the loop
\* ended with the node count at max_nodes.
C17_QueueEmptyIffBelowCap ==
    pc = "return" =>
        /\ Cardinality(Keys(nodes)) < maxNodes => q = <<>>
        /\ Cardinality(Keys(nodes)) >= maxNodes => q # <<>>

\* C17 (amended): the queue of the returned state is the part of the work
\* queue that was not popped: what the call loaded and appended is what it
\* popped followed by what it stores. It is empty if the BFS loop ended
\* with fewer than max_nodes nodes.
C17_QueueIsUnpoppedRemainder ==
    /\ []((Running /\ hist.loopEnded) =>
            /\ enq = pops \o q
            /\ Cardinality(Keys(nodes)) < maxNodes => q = <<>>)
    /\ [][(pc = "return" /\ pc' = "done") => stQueue' = q]_vars

\* A fresh crawl stopped at two nodes with entries left and stored them.
C17_Witness ==
    /\ pc = "done"
    /\ hist.calls = 1
    /\ stQueue # <<>>
    /\ Cardinality(Keys(nodes)) = 2

\* C18: over a fresh crawl and the resumes of its checkpoints the friend
\* list of an identity is fetched at most once, and no fetch is made for an
\* identity of the visited list of the checkpoint the call started from.
C18_NoRefetch ==
    /\ \A i \in Ids : hist.fetches[i] <= 1
    /\ pc = "fetch" => cur[1] \notin Range(stVisited)

\* A resumed call popped, from the stored queue, an identity of the
\* checkpoint's visited list and did not fetch it again.
C18_Witness ==
    /\ pc = "return"
    /\ hist.calls = 2
    /\ stQueue # <<>>
    /\ \E i \in DOMAIN pops :
          /\ pops[i][1] \in Range(stVisited)
          /\ hist.fetches[pops[i][1]] = 1

\* C19: when a resumed crawl is interrupted while the friend list of X is
\* being fetched, the state object it was given holds the values of the
\* last completed fetch: X is neither in its node map nor in its visited
\* list, and every identity whose friend list is in the node map is in the
\* visited list and no longer in the queue.
C19_InterruptKeepsCheckpoint ==
    (pc = "interrupted" /\ hist.calls >= 2) =>
        /\ cur[1] \notin Keys(nodes)
        /\ cur[1] \notin Range(stVisited)
        /\ \A sid \in Keys(nodes) :
              nodes[sid].fetched =>
                  /\ sid \in Range(stVisited)
                  /\ \A i \in DOMAIN stQueue : stQueue[i][1] # sid

\* The identities within k steps of the seed in the directed friend
\* relation of the directory, and the distance of an identity from the seed.
RECURSIVE Within(_)
Within(k) ==
    IF k = 0 THEN {Seed}
    ELSE LET w == Within(k - 1)
         IN w \cup UNION {Range(friendsOf[x]) : x \in w}

Reachable == Within(Cardinality(Ids))

Dist(x) ==
    CHOOSE k \in 0..Cardinality(Ids) :
        x \in Within(k) /\ \A j \in 0..(k - 1) : x \notin Within(j)

\* The depth at which x was first popped by the running call.
FirstPopDepth(x) ==
    LET i == CHOOSE i \in DOMAIN pops :
                 pops[i][1] = x /\ \A j \in 1..(i - 1) : pops[j][1] # x
    IN pops[i][2]

\* C22: a fresh crawl whose max_nodes is larger than the number of
\* reachable identities ends with the visited set equal to the set of the
\* identities at a directed distance of at most the depth argument from
\* the seed; each of them was first popped, and its friend list fetched,
\* at a depth equal to its distance.
C22_BfsComplete ==
    /\ (pc = "fetch" /\ hist.calls = 1) => cur[2] = Dist(cur[1])
    /\ (pc = "return" /\ hist.calls = 1 /\ maxNodes > Cardinality(Reachable)) =>
          /\ visited = Within(depth)
          /\ \A x \in visited :
                /\ \E i \in DOMAIN pops : pops[i][1] = x
                /\ FirstPopDepth(x) = Dist(x)
                /\ nodes[x].fetched
                /\ hist.fetches[x] = 1

\* A fresh crawl with budget to spare visited an identity two steps from
\* the seed.
C22_Witness ==
    /\ pc = "return"
    /\ hist.calls = 1
    /\ maxNodes > Cardinality(Reachable)
    /\ \E x \in visited : Dist(x) = 2

----------------------------------------------------------------------------
(* The crawl as a running program: a fresh scan, not interrupted.          *)
(* scan_network is sequential code; a request returns or times out         *)
(* (steam_api.py:39) and RateLimiter.wait returns, so every step of a call *)
(* that has begun is taken. Whether a scan is started is up to the user.   *)

CallStep ==
    \/ Pop
    \/ FetchReturn
    \/ LoopExit
    \/ Enrich
    \/ GroupLinks
    \/ Return

NextLive ==
    \/ StartFresh
    \/ CallStep

LiveCrawl == Init /\ [][NextLive]_vars /\ WF_vars(CallStep)

Min(a, b) == IF a <= b THEN a ELSE b

\* The friend lists the running call has asked for: one for every
\* identity it added to visited.
CallFetches == Cardinality(visited \ ToSet(stVisited))

RECURSIVE SumOver(_, _)
SumOver(f, S) ==
    IF S = {} THEN 0
    ELSE LET x == CHOOSE x \in S : TRUE IN f[x] + SumOver(f, S \ {x})

\* C24: for every friend-list directory, depth and max_nodes, a call of
\* scan_network that has begun ends its BFS loop and returns a state, and
\* has by then asked for at most min(max_nodes, number of identities)
\* friend lists.
C24_CrawlTerminates ==
    /\ [](Running =>
            /\ CallFetches <= Min(maxNodes, Cardinality(Ids))
            /\ hist.calls = 1 =>
                  SumOver(hist.fetches, Ids) <= Min(maxNodes, Cardinality(Ids)))
    /\ (pc = "loop") ~> (pc = "enrich")
    /\ (pc = "loop") ~> (pc = "done")

\* A fresh crawl of a directory in which every identity lists every
\* identity, itself included, popped stale entries, fetched three friend
\* lists and is about to return.
C24_Witness ==
    /\ pc = "return"
    /\ hist.calls = 1
    /\ \A i \in Ids : friendsOf[i] = IdOrder
    /\ Len(pops) > Cardinality(visited)
    /\ SumOver(hist.fetches, Ids) = Cardinality(Ids)
    /\ q = <<>>

----------------------------------------------------------------------------
(* resume_last on a scan.json that lacks fields of the checkpoint          *)

Fields == {"seed", "nodes", "edges", "visited", "queue", "meta"}

\* The checkpoints that lack one field, and the empty record.
DamagedShapes == {{f} : f \in Fields} \cup {Fields}

\* start.py:287-299 and scanner.py:22-37. state["seed"] of a record
\* without "seed" raises at start.py:289, before scan_network is called.
\* Every other field is read with state.get(field, default), and "meta" is
\* not read at all.
ResumeDamaged ==
    /\ pc = "done"
    /\ ~hist.damaged
    /\ \E missing \in DamagedShapes, mx \in NodeCaps :
          IF "seed" \in missing
          THEN /\ pc' = "failed"
               /\ hist' = [hist EXCEPT !.calls = @ + 1, !.damaged = TRUE]
               /\ UNCHANGED <<maxNodes, nodes, order, edges, stVisited, stQueue,
                              visited, q, enq>>
          ELSE /\ pc' = "loop"
               /\ maxNodes' = mx
               /\ nodes' = IF "nodes" \in missing THEN NoNodes ELSE nodes
               /\ order' = IF "nodes" \in missing THEN <<>> ELSE order
               /\ edges' = IF "edges" \in missing THEN <<>> ELSE edges
               /\ stVisited' = IF "visited" \in missing THEN <<>> ELSE stVisited
               /\ stQueue' = IF "queue" \in missing THEN <<>> ELSE stQueue
               /\ visited' = ToSet(stVisited')
               /\ q' = LoadQueue(stQueue')
               /\ enq' = LoadQueue(stQueue')
               /\ hist' = [hist EXCEPT !.calls = @ + 1,
                                       !.startCount = Cardinality(Keys(nodes')),
                                       !.startEdges = Len(edges'),
                                       !.damaged = TRUE]
    /\ cur' = <<>>
    /\ pops' = <<>>
    /\ UNCHANGED <<cfgVars, rlVars, xVars, pVars, depth, stDepth>>

InitDamaged ==
    /\ friendsOf \in FriendOracles
    /\ summaryOf = AllPublic
    /\ bansOf = NoBans
    /\ groupsOf = NoGroups
    /\ includeGroupLinks = FALSE
    /\ NoneDown
    /\ skipPrivate = FALSE
    /\ CrawlIdle
    /\ pc = "init"
    /\ RLOff
    /\ XOff
    /\ POff

NextDamaged ==
    \/ StartFresh
    \/ ResumeDamaged
    \/ Pop
    \/ FetchReturn
    \/ LoopExit
    \/ Enrich
    \/ Return

SpecDamaged == InitDamaged /\ [][NextDamaged]_vars

\* C14: a resume from a checkpoint that lacks a field, or from an empty
\* record, fails at once: it fetches nothing and does not crawl.
C14_DamagedResumeFails ==
    hist.damaged => pc = "failed"

----------------------------------------------------------------------------
(* Fresh crawls in which requests fail: the friend-list request of the     *)
(* identities of downFriends, the summaries request, the bans request.     *)
(* An identity is fetched once in a fresh crawl, so a failure per identity *)
(* is a failure per request.                                               *)

SomeBans == [i \in Ids |-> IF i = "A" THEN "vac" ELSE "clean"]

InitFail ==
    /\ friendsOf \in FriendOracles
    /\ summaryOf = AllPublic
    /\ bansOf = SomeBans
    /\ groupsOf = SomeGroups
    /\ includeGroupLinks = TRUE
    /\ downFriends \in SUBSET Ids
    /\ downSummaries \in BOOLEAN
    /\ downBans \in BOOLEAN
    /\ skipPrivate = FALSE
    /\ CrawlIdle
    /\ pc = "init"
    /\ RLOff
    /\ XOff
    /\ POff

SpecFail == InitFail /\ [][NextFresh]_vars

\* The directory as the crawl sees it when the failed requests count as
\* empty friend lists, and the crawl of it in one pass.
AbsorbedOracle == [i \in Ids |-> IF i \in downFriends THEN <<>> ELSE friendsOf[i]]
AbsorbedPass == RefBfsOf(AbsorbedOracle, LoadQueue(<<>>), {}, <<>>, <<>>, depth)

FriendPart(ee) == SelectSeq(ee, LAMBDA e : e.type = "friend")

\* C15: an identity whose friend-list request failed is a node with an
\* empty friend list, is the source of no friend edge and the parent of no
\* queue entry, and the crawl goes on as if its list were empty, up to the
\* end; after a failed summaries request every node has no name and is not
\* public, after a failed bans request no node has a ban.
C15_FailureAbsorbed ==
    Running =>
        /\ \A sid \in Keys(nodes) :
              /\ (nodes[sid].fetched /\ sid \in downFriends) => nodes[sid].friends = <<>>
              /\ (nodes[sid].enriched /\ downSummaries) =>
                    ~nodes[sid].personaname /\ ~nodes[sid].is_public
              /\ (nodes[sid].enriched /\ downBans) => ~nodes[sid].vac
        /\ \A i \in DOMAIN edges :
              edges[i].type = "friend" => edges[i].a \notin downFriends
        /\ \A i \in 2..Len(enq) :
              \E j \in DOMAIN pops :
                  /\ pops[j][1] \notin downFriends
                  /\ pops[j][2] + 1 = enq[i][2]
                  /\ enq[i][1] \in Range(friendsOf[pops[j][1]])
        /\ Len(pops) <= Len(AbsorbedPass.pops)
        /\ pops = SubSeq(AbsorbedPass.pops, 1, Len(pops))
        /\ (hist.loopEnded /\ hist.emptyExit) =>
              /\ Keys(nodes) = AbsorbedPass.visited
              /\ FriendPart(edges) = AbsorbedPass.edges

\* The friend-list request of an identity with friends failed, the crawl
\* went on to fetch another identity and ended on an empty queue; the
\* summaries and bans requests failed for a map that holds the banned A.
C15_Witness ==
    /\ pc = "return"
    /\ hist.emptyExit
    /\ downSummaries /\ downBans
    /\ "A" \in Keys(nodes)
    /\ \E i \in DOMAIN pops :
          /\ pops[i][1] \in downFriends
          /\ friendsOf[pops[i][1]] # <<>>
          /\ \E j \in DOMAIN pops :
                j > i /\ pops[j][1] \notin downFriends /\ pops[j][1] # pops[i][1]

----------------------------------------------------------------------------
(* Fresh crawls with group links over richer group memberships: every      *)
(* identity is in no group, in g1, or in g1 and g2; the friend lists are   *)
(* those of a seed that lists any identities, with A listing B or nobody.  *)

GroupLists == {<<>>, <<"g1">>, <<"g1", "g2">>}
GroupOracles == [Ids -> GroupLists]

ChainOracles ==
    {f \in FriendOracles : f["A"] \in {<<>>, <<"B">>} /\ f["B"] = <<>>}

InitGroups ==
    /\ friendsOf \in ChainOracles
    /\ summaryOf = AllPublic
    /\ bansOf = NoBans
    /\ groupsOf \in GroupOracles
    /\ includeGroupLinks = TRUE
    /\ NoneDown
    /\ skipPrivate = FALSE
    /\ CrawlIdle
    /\ pc = "init"
    /\ RLOff
    /\ XOff
    /\ POff

SpecGroups == InitGroups /\ [][NextFresh]_vars

\* The number of group edges of the edge list that join x and y.
GroupEdgeCount(x, y) ==
    Cardinality({i \in DOMAIN edges : EdgeKey(edges[i]) = <<{x, y}, "group">>})

\* C13: when a crawl with group links returns, the edge
\* list holds exactly one group edge for every two distinct nodes that
\* share a fetched group, however many groups they share, and none for two
\* nodes that share no group.
C13_OneGroupEdgePerPair ==
    (pc = "return" /\ includeGroupLinks) =>
        \A x, y \in Keys(nodes) :
            x # y =>
                GroupEdgeCount(x, y) =
                    IF <<{x, y}, "group">> \in GroupKeysOf(Keys(nodes)) THEN 1 ELSE 0

----------------------------------------------------------------------------
(* Crawls with group links over profiles of every visibility: a profile    *)
(* has no summary (0), is private (1) or is public; every identity is in   *)
(* the group g1; skip_private is set or not. The seed lists A, or A and B, *)
(* and A lists B.                                                          *)

VisCodes == {0, 1, PublicCode}
VisOracles == [Ids -> VisCodes]
AllInGroup == [i \in Ids |-> <<"g1">>]

SeedListsA ==
    {f \in ChainOracles : f[Seed] \in {<<"A">>, <<"A", "B">>} /\ f["A"] = <<"B">>}

InitPrivate ==
    /\ friendsOf \in SeedListsA
    /\ summaryOf \in VisOracles
    /\ bansOf = NoBans
    /\ groupsOf = AllInGroup
    /\ includeGroupLinks = TRUE
    /\ NoneDown
    /\ skipPrivate \in BOOLEAN
    /\ CrawlIdle
    /\ pc = "init"
    /\ RLOff
    /\ XOff
    /\ POff

SpecPrivate == InitPrivate /\ [][Next]_vars

\* The group edges the running call has appended to the edge list.
AddedGroupEdges ==
    {edges[i] : i \in {j \in (hist.startEdges + 1)..Len(edges) : edges[j].type = "group"}}

\* C21: in a crawl with group links and skip_private set, the group
\* memberships of a node that is not public (another visibility code, or
\* no summary) are not fetched and no group edge the crawl adds ends at
\* it; with skip_private unset the group memberships of every node of the
\* node map are fetched.
C21_SkipPrivateFilter ==
    (pc = "return" /\ includeGroupLinks) =>
        /\ skipPrivate =>
              \A sid \in Keys(nodes) :
                  summaryOf[sid] # PublicCode =>
                      /\ sid \notin hist.groupFetched
                      /\ \A e \in AddedGroupEdges : e.a # sid /\ e.b # sid
        /\ ~skipPrivate => hist.groupFetched = Keys(nodes)

\* A resumed crawl with skip_private set holds a node that is not public
\* and has added a group edge between two public nodes of its group.
C21_Witness ==
    /\ pc = "return"
    /\ hist.calls = 2
    /\ skipPrivate
    /\ \E sid \in Keys(nodes) : summaryOf[sid] # PublicCode
    /\ AddedGroupEdges # {}

----------------------------------------------------------------------------
(* RateLimiter, steam_api.py. Time is counted in units of 0.01 s.          *)

Window == 6000          \* self.window = 60.0
Margin == 1             \* the + 0.01 of sleep_for
MaxCalls == 4           \* wait() calls made
MaxRpm == 2             \* largest rpm argument

\* The time that passes before a call, by which a sleep overruns, and
\* between the test of line 20 and the clock read of line 23.
Gaps == {0, 1, Window \div 2, Window, Window + 1}
Overruns == {0, 1}
Delays == {0, 1}

\* self.rpm = max(1, rpm)   (line 13)
ClampNone(r) == r
Clamp(r) == Max(1, r)

\* lines 18-19: drop the timestamps older than the window
RECURSIVE DropOld(_, _)
DropOld(calls, t) ==
    IF calls # <<>> /\ t - Head(calls) > Window THEN DropOld(Tail(calls), t)
    ELSE calls

\* line 21: sleep_for = self.window - (now - self.calls[0]) + 0.01
SleepForNoMargin(t, oldest) == Window - (t - oldest)
SleepFor(t, oldest) == Window - (t - oldest) + Margin

\* RateLimiter(rpm), lines 11-14
RLNew(r) ==
    /\ rpm = Clamp(r)
    /\ rlCalls = <<>>
    /\ rlpc = "idle"

\* wait() is called and reads the clock (line 17), some time after the
\* last call returned.
Enter ==
    /\ rlpc = "idle"
    /\ rlDone < MaxCalls
    /\ \E g \in Gaps : now' = now + g
    /\ rlNow' = now'
    /\ rlpc' = "entered"
    /\ UNCHANGED <<rpm, rlCalls, recorded, rlDone, crawlVars, xVars, pVars>>

\* lines 18-22 up to the sleep: self.calls[0] of an empty deque raises.
Test ==
    /\ rlpc = "entered"
    /\ LET kept == DropOld(rlCalls, rlNow)
       IN /\ rlCalls' = kept
          /\ rlpc' = IF Len(kept) >= rpm
                     THEN (IF kept = <<>> THEN "raised" ELSE "sleeping")
                     ELSE "append"
    /\ UNCHANGED <<rpm, now, rlNow, recorded, rlDone, crawlVars, xVars, pVars>>

\* time.sleep(max(0.0, sleep_for)) returns, no sooner than asked
Wake ==
    /\ rlpc = "sleeping"
    /\ \E o \in Overruns :
          now' = now + Max(0, SleepFor(rlNow, Head(rlCalls))) + o
    /\ rlpc' = "append"
    /\ UNCHANGED <<rpm, rlCalls, rlNow, recorded, rlDone, crawlVars, xVars, pVars>>

\* line 23: self.calls.append(time.monotonic()), and wait() returns
Record ==
    /\ rlpc = "append"
    /\ \E dl \in Delays : now' = now + dl
    /\ rlCalls' = Append(rlCalls, now')
    /\ recorded' = Append(recorded, now')
    /\ rlDone' = rlDone + 1
    /\ rlpc' = "idle"
    /\ UNCHANGED <<rpm, rlNow, crawlVars, xVars, pVars>>

CrawlOff ==
    /\ friendsOf = [i \in Ids |-> <<>>]
    /\ summaryOf = AllPublic /\ bansOf = NoBans /\ groupsOf = NoGroups
    /\ NoneDown
    /\ skipPrivate = FALSE /\ includeGroupLinks = FALSE
    /\ CrawlIdle
    /\ pc = "off"

InitRL ==
    /\ \E r \in -1..MaxRpm : RLNew(r)
    /\ now = 0 /\ rlNow = 0 /\ recorded = <<>> /\ rlDone = 0
    /\ CrawlOff
    /\ XOff
    /\ POff

NextRL ==
    \/ Enter
    \/ Test
    \/ Wake
    \/ Record

SpecRL == InitRL /\ [][NextRL]_vars

\* A call that has begun goes on: the code between the clock read and the
\* append runs without waiting for anything but the sleep, which ends.
LiveRL == SpecRL /\ WF_vars(Test) /\ WF_vars(Wake) /\ WF_vars(Record)

\* C4: no window of 60 s holds more than rpm recorded timestamps; it is
\* enough to look at the windows that end at a recorded timestamp.
C4_WindowHoldsAtMostRpm ==
    \A i \in DOMAIN recorded :
        Cardinality({j \in DOMAIN recorded :
                        /\ recorded[i] - Window <= recorded[j]
                        /\ recorded[j] <= recorded[i]}) <= rpm

\* A call slept because rpm timestamps were within the window, and rpm + 1
\* timestamps are now recorded.
C4_Witness ==
    /\ rlpc = "idle"
    /\ rpm = 2
    /\ Len(recorded) = 3
    /\ recorded[3] = recorded[1] + Window + Margin
    /\ recorded[2] > recorded[1]
    /\ recorded[3] - recorded[2] < Window

\* C5: whatever rpm was asked for, every wait() that has begun returns, and
\* the calls that returned have recorded one timestamp each.
C5_WaitReturns ==
    /\ [](rlpc = "idle" => Len(recorded) = rlDone)
    /\ [][rlpc' = "idle" /\ rlpc # "idle" => Len(recorded') = Len(recorded) + 1]_vars
    /\ (rlpc = "entered") ~> (rlpc = "idle")

\* A call that had to sleep (rpm = 1, asked as at most 1) has returned.
C5_Witness ==
    /\ rlpc = "idle"
    /\ rpm = 1
    /\ rlDone = 2
    /\ recorded[2] >= recorded[1] + Window + Margin

----------------------------------------------------------------------------
(* _clean_edges and export_gephi, enricher.py *)

MaxRaw == 2             \* longest raw edge list handed to export_gephi
DefaultPct == 99        \* hub_percentile = 0.99, in hundredths

NoId == ""              \* a missing or empty endpoint: e.get("a") is falsy
Kinds == {"friend", "group"}
Pcts == {50, DefaultPct}

\* Raw edges: every pair of identities with every kind, and edges that
\* lack an endpoint.
RawEdges ==
    [a : Ids, b : Ids, type : Kinds]
        \cup {[a |-> NoId, b |-> Seed, type |-> "friend"],
              [a |-> Seed, b |-> NoId, type |-> "friend"]}
RawLists == UNION {[1..n -> RawEdges] : n \in 0..MaxRaw}

\* The order of Python's string comparison on the identities.
Rank(id) == CASE id = "A" -> 1 [] id = "B" -> 2 [] id = "S" -> 3

\* line 23: key = tuple(sorted((a, b)) + [t])
CleanKeyUnsorted(a, b, t) == <<a, b, t>>
CleanKey(a, b, t) == IF Rank(a) <= Rank(b) THEN <<a, b, t>> ELSE <<b, a, t>>

\* lines 13-28
RECURSIVE CleanLoop(_, _, _, _)
CleanLoop(keep, raw, seen, out) ==
    IF raw = <<>> THEN out
    ELSE LET e == Head(raw)
         IN IF e.a = NoId \/ e.b = NoId
            THEN CleanLoop(keep, Tail(raw), seen, out)
            ELSE IF e.a \notin keep \/ e.b \notin keep
            THEN CleanLoop(keep, Tail(raw), seen, out)
            ELSE IF CleanKey(e.a, e.b, e.type) \in seen
            THEN CleanLoop(keep, Tail(raw), seen, out)
            ELSE CleanLoop(keep, Tail(raw),
                           seen \cup {CleanKey(e.a, e.b, e.type)},
                           Append(out, [a |-> e.a, b |-> e.b, type |-> e.type]))

CleanEdgesKeepAll(keep, raw) == raw
CleanEdges(keep, raw) == CleanLoop(keep, raw, {}, <<>>)

\* _build_graph, lines 31-45: x and y are joined in G
Adjacent(ee, x, y) == \E i \in DOMAIN ee : {ee[i].a, ee[i].b} = {x, y}

\* nx.betweenness_centrality(G), line 61, in units of 1.0, for the graphs
\* of at most three vertices: a vertex lies on a shortest path between two
\* others only when it is the middle of a path of three vertices, and its
\* normalised betweenness is then 1.0; every other vertex has 0.0.
Betweenness(V, ee) ==
    [v \in V |->
        IF \E x, y \in V \ {v} :
              /\ x # y
              /\ Adjacent(ee, v, x) /\ Adjacent(ee, v, y)
              /\ ~Adjacent(ee, x, y)
        THEN 1 ELSE 0]

\* sorted(bet.values(), reverse=True)
RECURSIVE SortedDesc(_, _)
SortedDesc(V, bet) ==
    IF V = {} THEN <<>>
    ELSE LET m == CHOOSE v \in V : \A w \in V : bet[v] >= bet[w]
         IN <<bet[m]>> \o SortedDesc(V \ {m}, bet)

\* int(len(bet) * hub_percentile), hub_percentile = pct / 100
RankIndex(n, pct) == Max(0, ((n * pct) \div 100) - 1)

\* lines 65-70; the 1.0 of the else branch is 1 in the units used here
HubThreshold(bet, pct) ==
    IF DOMAIN bet # {}
    THEN SortedDesc(DOMAIN bet, bet)[RankIndex(Cardinality(DOMAIN bet), pct) + 1]
    ELSE 1

\* line 91: is_hub = bet.get(sid, 0.0) >= thresh if bet else False
IsHub(bet, thresh, sid) ==
    IF DOMAIN bet # {} THEN bet[sid] >= thresh ELSE FALSE

\* line 55 binds the cleaned list to the local `edges`: state["edges"]
\* stays the list it was.
StateEdgesReplaced(stateEdges, cleaned) == cleaned
StateEdgesKept(stateEdges, cleaned) == stateEdges

\* lines 54-55
XClean ==
    /\ xpc = "start"
    /\ xEdges' = CleanEdges(xNodes, xRaw)
    /\ edges' = StateEdgesKept(edges, xEdges')
    /\ xpc' = "cleaned"
    /\ UNCHANGED <<xNodes, xRaw, xBet, xPct, xHub, rlVars, pVars,
                   cfgVars, depth, maxNodes, nodes, order, stVisited, stQueue,
                   stDepth, visited, q, cur, pc, pops, enq, hist>>

\* lines 56-62
XMetrics ==
    /\ xpc = "cleaned"
    /\ xBet' = Betweenness(xNodes, xEdges)
    /\ xpc' = "measured"
    /\ UNCHANGED <<xNodes, xRaw, xEdges, xPct, xHub, crawlVars, rlVars, pVars>>

\* lines 64-98: the threshold and the is_hub column of the nodes table
XHubs ==
    /\ xpc = "measured"
    /\ \E thresh \in {HubThreshold(xBet, xPct)} :
          xHub' = {sid \in xNodes : IsHub(xBet, thresh, sid)}
    /\ xpc' = "exported"
    /\ UNCHANGED <<xNodes, xRaw, xEdges, xBet, xPct, crawlVars, rlVars, pVars>>

InitExport ==
    /\ xNodes \in SUBSET Ids
    /\ xRaw \in RawLists
    /\ xPct \in Pcts
    /\ xEdges = <<>> /\ xBet = NoNodes /\ xHub = {}
    /\ xpc = "start"
    /\ CrawlOff
    /\ RLOff
    /\ POff

NextExport ==
    \/ XClean
    \/ XMetrics
    \/ XHubs

SpecExport == InitExport /\ [][NextExport]_vars

\* C8: the cleaned list holds only edges between identities of the node
\* map, each of them an edge of the raw list, and exactly one edge for
\* every (unordered pair, kind) of the raw list with both ends in the map.
C8_CleanEdgesExact ==
    xpc # "start" =>
        /\ \A i \in DOMAIN xEdges :
              /\ xEdges[i].a \in xNodes /\ xEdges[i].b \in xNodes
              /\ \E j \in DOMAIN xRaw : xRaw[j] = xEdges[i]
        /\ \A j \in DOMAIN xRaw :
              (xRaw[j].a \in xNodes /\ xRaw[j].b \in xNodes) =>
                  Cardinality({i \in DOMAIN xEdges :
                                  EdgeKey(xEdges[i]) = EdgeKey(xRaw[j])}) = 1

\* The same friend pair in both directions has been cleaned to one edge.
C8_Witness ==
    /\ xpc = "cleaned"
    /\ xNodes = {"S", "A"}
    /\ xRaw = <<FriendEdge("S", "A"), FriendEdge("A", "S")>>
    /\ xEdges = <<FriendEdge("S", "A")>>

\* C10: with at least one vertex and no edge, no vertex is flagged as hub.
C10_NoHubWithoutEdges ==
    (xpc = "exported" /\ xNodes # {} /\ xEdges = <<>>) => xHub = {}

----------------------------------------------------------------------------
(* The hub flag of export_gephi on larger graphs: lines 64-98 applied to a *)
(* betweenness table of up to MaxVerts vertices with pairwise distinct     *)
(* values. The vertices are numbered; the table is what networkx returned. *)

MaxVerts == 100         \* most vertices in the betweenness table

\* Tables with pairwise distinct values: rising and falling with the
\* vertex number.
HubBets(n) == {[v \in 1..n |-> v], [v \in 1..n |-> n + 1 - v]}

InitHub ==
    /\ \E n \in 1..MaxVerts :
          /\ xNodes = 1..n
          /\ xBet \in HubBets(n)
    /\ xPct \in Pcts
    /\ xRaw = <<>> /\ xEdges = <<>> /\ xHub = {}
    /\ xpc = "measured"
    /\ CrawlOff
    /\ RLOff
    /\ POff

NextHub == XHubs

SpecHub == InitHub /\ [][NextHub]_vars

Distinct(bet) == \A v, w \in DOMAIN bet : v # w => bet[v] # bet[w]

\* C11: with hub_percentile = 0.99 and 100 vertices of pairwise distinct
\* betweenness, the vertices flagged as hub are the top of the ranking: the
\* vertex of highest betweenness is flagged and the flagged vertices are
\* not the majority.
C11_HubsAreTopFraction ==
    (xpc = "exported" /\ xPct = DefaultPct /\ Cardinality(xNodes) = 100
        /\ Distinct(xBet)) =>
        /\ \E v \in xHub : \A w \in xNodes : xBet[v] >= xBet[w]
        /\ 2 * Cardinality(xHub) <= Cardinality(xNodes)

----------------------------------------------------------------------------
(* compute_probable_friends, probable_friends.py *)

\* The scorer's universe has one identity more than the crawl's, so that a
\* seed can have three friends.
PIds == Ids \cup {"C"}
POrder == IdOrder \o <<"C">>
PListOf(set) == SelectSeq(POrder, LAMBDA x : x \in set)

\* cfg["weights"] in halves, as <<mutual, jaccard, groups>>; the defaults
\* of lines 48-50 are 1.0, 1.0 and 0.5. The games term is 0 times its weight.
DefaultWeights == <<2, 2, 1>>
WeightChoices == {DefaultWeights, <<0, 2, 4>>}

\* line 18: set(nodes.get(seed, {}).get("friends", []) or [])
SeedFriends(nn, seed) == IF seed \in Keys(nn) THEN ToSet(nn[seed].friends) ELSE {}

\* lines 21-23, read as neigh.get(sid, set())
Neigh(nn, sid) == IF sid \in Keys(nn) THEN ToSet(nn[sid].friends) ELSE {}

\* lines 26-28, read as groups_map.get(sid, set())
GroupsMap(nn, sid) == IF sid \in Keys(nn) THEN ToSet(nn[sid].groups) ELSE {}

\* line 34: sum(1 for fr in seed_friends if candidate in neigh.get(fr, set()))
Mutual(nn, seed, c) ==
    Cardinality({fr \in SeedFriends(nn, seed) : c \in Neigh(nn, fr)})

\* line 37
InterSize(nn, seed, c) == Cardinality(Neigh(nn, c) \cap SeedFriends(nn, seed))

\* line 38: len(a | seed_friends) or 1
UnionSize(nn, seed, c) ==
    LET n == Cardinality(Neigh(nn, c) \cup SeedFriends(nn, seed))
    IN IF n = 0 THEN 1 ELSE n

\* line 42
SharedGroups(nn, seed, c) == Cardinality(GroupsMap(nn, c) \cap GroupsMap(nn, seed))

\* lines 32-54: the row of one candidate. jacc is inter / union and the
\* score of lines 47-52 is kept as the fraction num / den:
\*   mutual * wm/2 + (inter/union) * wj/2 + sg * wg/2
\*     = ((mutual * wm + sg * wg) * union + inter * wj) / (2 * union)
Row(nn, seed, w, c) ==
    [candidate |-> c,
     mutual |-> Mutual(nn, seed, c),
     inter |-> InterSize(nn, seed, c),
     union |-> UnionSize(nn, seed, c),
     sg |-> SharedGroups(nn, seed, c),
     num |-> (Mutual(nn, seed, c) * w[1] + SharedGroups(nn, seed, c) * w[3])
                 * UnionSize(nn, seed, c)
             + InterSize(nn, seed, c) * w[2],
     den |-> 2 * UnionSize(nn, seed, c)]

\* r1's score is greater than r2's
ScoreGreater(r1, r2) == r1.num * r2.den > r2.num * r1.den

\* line 56: rows.sort(key=lambda r: r[1], reverse=True), a stable sort:
\* a row goes behind the rows whose score is not smaller.
InsertRow(sorted, r) ==
    LET k == Cardinality({i \in DOMAIN sorted : ~ScoreGreater(r, sorted[i])})
    IN SubSeq(sorted, 1, k) \o <<r>> \o SubSeq(sorted, k + 1, Len(sorted))

RECURSIVE SortRows(_, _)
SortRows(rows, acc) ==
    IF rows = <<>> THEN acc
    ELSE SortRows(Tail(rows), InsertRow(acc, Head(rows)))

\* lines 15-56, for the order `cands` in which the set seed_friends is
\* iterated.
RowsOf(nn, seed, w, cands) ==
    SortRows([i \in DOMAIN cands |-> Row(nn, seed, w, cands[i])], <<>>)

\* compute_probable_friends(state, out_dir, weights): reads state["seed"]
\* and state["nodes"], writes the table; the iteration order of the set
\* seed_friends is the interpreter's.
Score ==
    /\ pc = "done"
    /\ ppc = "start"
    /\ \E cands \in Perms(SeedFriends(nodes, Seed)) :
          pRows' = RowsOf(nodes, Seed, pWeights, cands)
    /\ ppc' = "written"
    /\ UNCHANGED <<pWeights, crawlVars, rlVars, xVars>>

\* A node as a finished crawl leaves it, with the friend and group sets
\* given.
ScoredNode(friends, groups) ==
    [NewNode EXCEPT !.fetched = TRUE, !.friends = PListOf(friends),
                    !.enriched = TRUE, !.personaname = TRUE, !.is_public = TRUE,
                    !.hasGroups = TRUE, !.groups = groups]

ScorerGroups ==
    [i \in PIds |-> CASE i = "S" -> <<"g1", "g2">>
                      [] i = "A" -> <<"g1">>
                      [] i = "B" -> <<"g2", "g1">>
                      [] OTHER -> <<>>]

\* The states handed to the scorer: every friend relation over PIds.
InitScore ==
    /\ friendsOf = [i \in Ids |-> <<>>]
    /\ summaryOf = AllPublic /\ bansOf = NoBans /\ groupsOf = NoGroups
    /\ NoneDown
    /\ skipPrivate = FALSE /\ includeGroupLinks = TRUE
    /\ depth = 0 /\ maxNodes = 0
    /\ \E fs \in [PIds -> SUBSET PIds] :
          nodes = [i \in PIds |-> ScoredNode(fs[i], ScorerGroups[i])]
    /\ order = POrder /\ edges = <<>>
    /\ stVisited = POrder /\ stQueue = <<>> /\ stDepth = 0
    /\ visited = {} /\ q = <<>> /\ cur = <<>> /\ pops = <<>> /\ enq = <<>>
    /\ hist = NoHist
    /\ pc = "done"
    /\ pWeights \in WeightChoices /\ pRows = <<>> /\ ppc = "start"
    /\ RLOff
    /\ XOff

NextScore == Score

SpecScore == InitScore /\ [][NextScore]_vars

\* The friend relation of the scorer example.
ExampleFriends ==
    [i \in PIds |-> CASE i = "S" -> {"A", "B", "C"}
                      [] i = "A" -> {"S", "B"}
                      [] i = "B" -> {"S", "A", "C"}
                      [] OTHER -> {"S", "B"}]

RowFor(c) == pRows[CHOOSE i \in DOMAIN pRows : pRows[i].candidate = c]

\* C12: the table has one row for every friend of the seed, with mutual(c)
\* the number of seed friends other than c that list c, jaccard(c) the
\* ratio of the common to the joint members of c's friends and the seed's
\* friends (the latter at least 1), sharedGroups(c) the number of groups c
\* has in common with the seed, the score the weighted sum of the three,
\* and the rows in non-increasing order of score; in the example mutual is
\* 1, 2, 1 for A, B, C, jaccard(B) is 1/2 and B is in the first row.
C12_ScorerRows ==
    ppc = "written" =>
        LET sf == ToSet(nodes[Seed].friends)
            nb(c) == ToSet(nodes[c].friends)
        IN /\ Len(pRows) = Cardinality(sf)
           /\ {pRows[i].candidate : i \in DOMAIN pRows} = sf
           /\ \A i \in DOMAIN pRows :
                 LET r == pRows[i]
                     c == r.candidate
                     jn == Cardinality(nb(c) \cap sf)
                     jd == Max(1, Cardinality(nb(c) \cup sf))
                 IN /\ r.mutual = Cardinality({f \in sf \ {c} : c \in nb(f)})
                    /\ r.inter * jd = jn * r.union
                    /\ r.sg = Cardinality(ToSet(nodes[c].groups)
                                              \cap ToSet(nodes[Seed].groups))
                    /\ r.num * 2 * jd =
                          ((r.mutual * pWeights[1] + r.sg * pWeights[3]) * jd
                              + jn * pWeights[2]) * r.den
           /\ \A i, j \in DOMAIN pRows : i < j => ~ScoreGreater(pRows[j], pRows[i])
           /\ (pWeights = DefaultWeights
                 /\ \A i \in PIds : nb(i) = ExampleFriends[i]) =>
                 /\ RowFor("A").mutual = 1
                 /\ RowFor("B").mutual = 2
                 /\ RowFor("C").mutual = 1
                 /\ RowFor("B").inter * 2 = RowFor("B").union
                 /\ pRows[1].candidate = "B"

----------------------------------------------------------------------------
(* run_scan, start.py:237-262: a fresh crawl, then export_gephi and        *)
(* compute_probable_friends on the state it returned. start.py calls the   *)
(* export first; here the two run in either order, and either may be left  *)
(* out.                                                                    *)

\* export_gephi(state, out_dir, hub_percentile), lines 54-57: the node map
\* and the edge list of the state are read.
XLoad ==
    /\ pc = "done"
    /\ xpc = "off"
    /\ xNodes' = Keys(nodes)
    /\ xRaw' = edges
    /\ xPct' = DefaultPct
    /\ xpc' = "start"
    /\ UNCHANGED <<xEdges, xBet, xHub, crawlVars, rlVars, pVars>>

InitAnalytics ==
    /\ friendsOf \in FriendOracles
    /\ summaryOf = AllPublic
    /\ bansOf = NoBans
    /\ \/ includeGroupLinks = FALSE /\ groupsOf = NoGroups
       \/ includeGroupLinks = TRUE /\ groupsOf = SomeGroups
    /\ NoneDown
    /\ skipPrivate = FALSE
    /\ CrawlIdle
    /\ pc = "init"
    /\ RLOff
    /\ XOff
    /\ pWeights = DefaultWeights /\ pRows = <<>> /\ ppc = "start"

NextAnalytics ==
    \/ StartFresh
    \/ Pop
    \/ FetchReturn
    \/ LoopExit
    \/ Enrich
    \/ GroupLinks
    \/ Return
    \/ XLoad
    \/ XClean
    \/ XMetrics
    \/ XHubs
    \/ Score

SpecAnalytics == InitAnalytics /\ [][NextAnalytics]_vars

\* The fields of the TraversalState; its seed is the fixed Seed.
stateFields == <<nodes, order, edges, stVisited, stQueue, stDepth>>

\* C20: no step of export_gephi or compute_probable_friends changes a field
\* of the state the crawl returned, so the tables are those of that state
\* whichever of the two ran first: the edges table is the cleaned edge
\* list of the state, the hub flags follow from it, and the candidate rows
\* are the rows of the state's node map.
C20_AnalyticsLeaveState ==
    /\ [][pc = "done" => UNCHANGED stateFields]_vars
    /\ [](xpc \in {"cleaned", "measured", "exported"} =>
            xEdges = CleanEdges(Keys(nodes), edges))
    /\ [](xpc = "exported" =>
            xHub = {sid \in Keys(nodes) :
                      IsHub(Betweenness(Keys(nodes), xEdges),
                            HubThreshold(Betweenness(Keys(nodes), xEdges), DefaultPct),
                            sid)})
    /\ [](ppc = "written" =>
            \E cands \in Perms(SeedFriends(nodes, Seed)) :
                pRows = RowsOf(nodes, Seed, pWeights, cands))

\* Both tables were written for a state whose edge list held edges that the
\* export cleaned away.
C20_Witness ==
    /\ pc = "done"
    /\ xpc = "exported"
    /\ ppc = "written"
    /\ Len(xEdges) < Len(edges)
    /\ Len(pRows) = 2

\* The identities that a friend edge of the edge list points to and that
\* are not in the visited list of the returned state: found in a friend
\* list, never popped.
NeverPopped ==
    {edges[i].b : i \in {j \in DOMAIN edges : edges[j].type = "friend"}}
        \ ToSet(stVisited)

\* C23: in a fresh crawl the keys of the node map are the visited set
\* whenever the BFS loop is at its test and after it, and the visited list
\* of the returned state; an identity found as a friend and never popped
\* has no node entry, the cleaned edge list joins nothing to it and the
\* nodes table has no row for it.
C23_NodeMapIsVisited ==
    /\ pc \in {"loop", "enrich", "groups", "return"} => Keys(nodes) = visited
    /\ pc = "done" =>
          /\ Keys(nodes) = ToSet(stVisited)
          /\ \A f \in NeverPopped :
                /\ f \notin Keys(nodes)
                /\ xpc \in {"cleaned", "measured", "exported"} =>
                      \A i \in DOMAIN xEdges : xEdges[i].a # f /\ xEdges[i].b # f
                /\ xpc # "off" => f \notin xNodes

\* The tables were written for a crawl that stopped with a friend found
\* and not popped; the export dropped an edge and kept another.
C23_Witness ==
    /\ pc = "done"
    /\ xpc = "exported"
    /\ NeverPopped # {}
    /\ xEdges # <<>>
    /\ Len(xEdges) < Len(edges)
    /\ \E i \in DOMAIN edges : edges[i].b \in NeverPopped /\ edges[i].a # edges[i].b

====
